---------------------------- MODULE Spec2Model ----------------------------
(***************************************************************************)
(* A model of the tui-textarea editing buffer (src/src/lib.rs).            *)
(*                                                                         *)
(* A Rust String is modelled as what it is: a sequence of UTF-8 bytes      *)
(* (integers 0..255).  A char is its Unicode scalar value.  Byte offsets   *)
(* and character offsets are both 0-based, as in the source; only the      *)
(* indexing of a TLA+ sequence adds 1.                                     *)
(*                                                                         *)
(* The TextArea struct is one record `textarea` with the fields `lines`,   *)
(* `cursor` and `tab` of the source, and `panicked`: a call has unwound,   *)
(* and the program does not go on.  The fields `style` and `block` are     *)
(* opaque pass-through values no operation here reads.                     *)
(*                                                                         *)
(* The build modelled is the one with debug assertions (cargo's dev and    *)
(* test profiles): debug_assert! is compiled in and an integer overflow    *)
(* panics.                                                                 *)
(***************************************************************************)
EXTENDS Integers, Sequences, FiniteSets

VARIABLES textarea, event, last_input

vars == <<textarea, event, last_input>>

---------------------------------------------------------------------------
(* Bounds of the model *)

\* most characters the buffer may hold over all its lines, each line's
\* sentinel counted
MaxCells == 5

---------------------------------------------------------------------------
(* Characters (Unicode scalar values) *)

\* ' ', the sentinel every line ends with
SPACE == 32
\* '\n'
NEWLINE == 10
CH_a == 97
CH_b == 98
CH_e == 101
CH_f == 102
CH_h == 104
CH_m == 109
CH_n == 110
CH_p == 112

\* Option<T>
None == <<>>
Some(x) == <<x>>

---------------------------------------------------------------------------
(* str / String / char of the standard library, on UTF-8 bytes *)

\* char::len_utf8
len_utf8(c) ==
    IF c < 128 THEN 1 ELSE IF c < 2048 THEN 2 ELSE IF c < 65536 THEN 3 ELSE 4

\* char::encode_utf8
encode_utf8(c) ==
    IF c < 128 THEN <<c>>
    ELSE IF c < 2048 THEN <<192 + (c \div 64), 128 + (c % 64)>>
    ELSE IF c < 65536 THEN
        <<224 + (c \div 4096), 128 + ((c \div 64) % 64), 128 + (c % 64)>>
    ELSE <<240 + (c \div 262144), 128 + ((c \div 4096) % 64),
           128 + ((c \div 64) % 64), 128 + (c % 64)>>

\* a UTF-8 continuation byte, 0b10xxxxxx
IsContinuation(b) == b >= 128 /\ b < 192

\* the width of the character a leading byte starts
utf8_char_width(b) ==
    IF b < 128 THEN 1 ELSE IF b < 224 THEN 2 ELSE IF b < 240 THEN 3 ELSE 4

\* the String of a sequence of chars
RECURSIVE from_chars(_)
from_chars(cs) ==
    IF cs = <<>> THEN <<>> ELSE encode_utf8(Head(cs)) \o from_chars(Tail(cs))

\* s[a..b], byte offsets
slice(s, a, b) == SubSeq(s, a + 1, b)

\* str::is_char_boundary
is_char_boundary(s, i) ==
    \/ i = 0
    \/ i = Len(s)
    \/ i < Len(s) /\ ~IsContinuation(s[i + 1])

\* the byte offsets at which a character starts, i.e. char_indices()'s offsets
CharStarts(s) == {i \in 0..(Len(s) - 1) : ~IsContinuation(s[i + 1])}

\* s.chars().count()
chars_count(s) == Cardinality(CharStarts(s))

\* s.char_indices().nth(n).map(|(i, _)| i)
char_indices_nth(s, n) ==
    LET hits == {i \in CharStarts(s) :
                    Cardinality({j \in CharStarts(s) : j < i}) = n}
    IN  IF hits = {} THEN None ELSE Some(CHOOSE i \in hits : TRUE)

\* the scalar value of the character that starts at byte offset i
char_at(s, i) ==
    LET b == s[i + 1]
        w == utf8_char_width(b)
        t(k) == s[i + 1 + k] % 64
    IN  IF w = 1 THEN b
        ELSE IF w = 2 THEN (b % 32) * 64 + t(1)
        ELSE IF w = 3 THEN (b % 16) * 4096 + t(1) * 64 + t(2)
        ELSE (b % 8) * 262144 + t(1) * 4096 + t(2) * 64 + t(3)

\* s.chars() as a sequence of scalar values
chars(s) ==
    [k \in 1..chars_count(s) |-> char_at(s, char_indices_nth(s, k - 1)[1])]

\* String::insert_str(idx, string)
String_insert_str(s, idx, string) ==
    slice(s, 0, idx) \o string \o slice(s, idx, Len(s))

\* String::insert(idx, ch)
String_insert(s, idx, ch) == String_insert_str(s, idx, encode_utf8(ch))

\* String::remove(idx): removes the character that starts at idx
String_remove(s, idx) ==
    slice(s, 0, idx) \o slice(s, idx + utf8_char_width(s[idx + 1]), Len(s))

\* String::pop: removes the last character, if there is one
String_pop(s) ==
    IF s = <<>> THEN s
    ELSE slice(s, 0, CHOOSE i \in CharStarts(s) :
                        \A j \in CharStarts(s) : j <= i)

\* String::push(ch)
String_push(s, ch) == s \o encode_utf8(ch)

\* String::push_str(string)
String_push_str(s, string) == s \o string

\* String::truncate(new_len)
String_truncate(s, new_len) ==
    IF new_len <= Len(s) THEN slice(s, 0, new_len) ELSE s

\* str::ends_with(ch)
ends_with(s, ch) ==
    LET e == encode_utf8(ch)
    IN  Len(s) >= Len(e) /\ slice(s, Len(s) - Len(e), Len(s)) = e

\* Vec::insert(index, element)
Vec_insert(v, index, x) ==
    SubSeq(v, 1, index) \o <<x>> \o SubSeq(v, index + 1, Len(v))

\* Vec::remove(index), the vector left
Vec_remove(v, index) == SubSeq(v, 1, index) \o SubSeq(v, index + 2, Len(v))

---------------------------------------------------------------------------
(* TextArea *)

\* a panic unwinds out of the call: the fields stay as they are at that point
Panic(ta) == [ta EXCEPT !.panicked = TRUE]

\* n - 1 on usize overflows, and panics, when n is 0
Underflows(n) == n = 0

\* impl Default for TextArea
TextArea_default ==
    [lines |-> <<from_chars(<<SPACE>>)>>,
     cursor |-> <<0, 0>>,
     tab |-> from_chars(<<SPACE, SPACE, SPACE, SPACE>>),
     panicked |-> FALSE]

\* insert_char advancing the cursor by the byte width of the character
insert_char_byte_width(ta, c) ==
    LET row == ta.cursor[1]
        col == ta.cursor[2]
    IN  IF row >= Len(ta.lines) THEN Panic(ta)
        ELSE LET line == ta.lines[row + 1]
                 nth == char_indices_nth(line, col)
             IN  IF nth = None THEN ta
                 ELSE [ta EXCEPT !.lines[row + 1] = String_insert(line, nth[1], c),
                                 !.cursor = <<row, col + len_utf8(c)>>]

insert_char(ta, c) ==
    LET row == ta.cursor[1]
        col == ta.cursor[2]
    IN  IF row >= Len(ta.lines) THEN Panic(ta)
        ELSE LET line == ta.lines[row + 1]
                 nth == char_indices_nth(line, col)
             IN  IF nth = None THEN ta
                 ELSE [ta EXCEPT !.lines[row + 1] = String_insert(line, nth[1], c),
                                 !.cursor = <<row, col + 1>>]

insert_str(ta, s) ==
    LET row == ta.cursor[1]
        col == ta.cursor[2]
    IN  IF row >= Len(ta.lines) THEN Panic(ta)
        ELSE LET line == ta.lines[row + 1]
                 nth == char_indices_nth(line, col)
             IN  \* debug_assert_eq!(line.char_indices().find(..'\n'), None)
                 IF \E i \in CharStarts(line) : char_at(line, i) = NEWLINE
                 THEN Panic(ta)
                 ELSE IF nth = None THEN ta
                 ELSE [ta EXCEPT !.lines[row + 1] = String_insert_str(line, nth[1], s),
                                 !.cursor = <<row, col + chars_count(s)>>]

\* &self.tab[..len] is taken before insert_str is called: it panics when len
\* is inside a character of the tab
insert_tab(ta) ==
    IF ta.tab # <<>>
    THEN LET len == Len(ta.tab) - (ta.cursor[2] % Len(ta.tab))
         IN  IF ~is_char_boundary(ta.tab, len) THEN Panic(ta)
             ELSE insert_str(ta, slice(ta.tab, 0, len))
    ELSE ta

\* insert_newline without its line.push(' ')
insert_newline_no_sentinel(ta) ==
    LET row == ta.cursor[1]
        col == ta.cursor[2]
        line == ta.lines[row + 1]
        nth == char_indices_nth(line, col)
        idx == IF nth = None THEN Len(line) - 1 ELSE nth[1]
    IN  [ta EXCEPT
           !.lines = Vec_insert(
               [ta.lines EXCEPT ![row + 1] = String_truncate(line, idx)],
               row + 1, slice(line, idx, Len(line))),
           !.cursor = <<row + 1, 0>>]

\* insert_newline pushing the rest of the line at the end of the Vec
insert_newline_at_end(ta) ==
    LET row == ta.cursor[1]
        col == ta.cursor[2]
    IN  IF row >= Len(ta.lines) THEN Panic(ta)
        ELSE LET line == ta.lines[row + 1]
                 nth == char_indices_nth(line, col)
                 idx == IF nth = None THEN Len(line) ELSE nth[1]
                 next_line == slice(line, idx, Len(line))
                 cut == String_push(String_truncate(line, idx), SPACE)
             IN  [ta EXCEPT !.lines = Append([ta.lines EXCEPT ![row + 1] = cut],
                                             next_line),
                            !.cursor = <<row + 1, 0>>]

insert_newline(ta) ==
    LET row == ta.cursor[1]
        col == ta.cursor[2]
    IN  IF row >= Len(ta.lines) THEN Panic(ta)
        ELSE LET line == ta.lines[row + 1]
                 nth == char_indices_nth(line, col)
             IN  \* unwrap_or's argument line.len() - 1 is evaluated first
                 IF Underflows(Len(line)) THEN Panic(ta)
                 ELSE LET idx == IF nth = None THEN Len(line) - 1 ELSE nth[1]
                      IN  IF ~is_char_boundary(line, idx) THEN Panic(ta)
                          ELSE LET next_line == slice(line, idx, Len(line))
                                   cut == String_push(String_truncate(line, idx), SPACE)
                               IN  [ta EXCEPT
                                      !.lines = Vec_insert(
                                          [ta.lines EXCEPT ![row + 1] = cut],
                                          row + 1, next_line),
                                      !.cursor = <<row + 1, 0>>]

\* delete_char whose merge leaves out prev_line.pop()
delete_char_keeps_sentinel(ta) ==
    LET row == ta.cursor[1]
        col == ta.cursor[2]
    IN  IF col = 0
        THEN IF row > 0
             THEN LET removed == Vec_remove(ta.lines, row)
                      prev_line == String_push_str(removed[row], ta.lines[row + 1])
                  IN  [ta EXCEPT
                         !.lines = [removed EXCEPT ![row] = prev_line],
                         !.cursor = <<row - 1, chars_count(prev_line) - 1>>]
             ELSE ta
        ELSE LET line == ta.lines[row + 1]
                 nth == char_indices_nth(line, col - 1)
             IN  IF nth = None THEN ta
                 ELSE [ta EXCEPT !.lines[row + 1] = String_remove(line, nth[1]),
                                 !.cursor = <<row, col - 1>>]

\* delete_char whose merge leaves the cursor where the two lines were joined
delete_char_cursor_at_join(ta) ==
    LET row == ta.cursor[1]
        col == ta.cursor[2]
    IN  IF col = 0
        THEN IF row > 0
             THEN IF row >= Len(ta.lines) THEN Panic(ta)
                  ELSE LET line == ta.lines[row + 1]
                           removed == Vec_remove(ta.lines, row)
                           popped == String_pop(removed[row])
                           prev_line == String_push_str(popped, line)
                       IN  [ta EXCEPT !.lines = [removed EXCEPT ![row] = prev_line],
                                      !.cursor = <<row - 1, chars_count(popped)>>]
             ELSE ta
        ELSE IF row >= Len(ta.lines) THEN Panic(ta)
             ELSE LET line == ta.lines[row + 1]
                      nth == char_indices_nth(line, col - 1)
                  IN  IF nth = None THEN ta
                      ELSE [ta EXCEPT !.lines[row + 1] = String_remove(line, nth[1]),
                                      !.cursor = <<row, col - 1>>]

\* delete_char removing the character the cursor is on, not the one before
delete_char_at_cursor(ta) ==
    LET row == ta.cursor[1]
        col == ta.cursor[2]
    IN  IF col = 0
        THEN IF row > 0
             THEN IF row >= Len(ta.lines) THEN Panic(ta)
                  ELSE LET line == ta.lines[row + 1]
                           removed == Vec_remove(ta.lines, row)
                           prev_line ==
                               String_push_str(String_pop(removed[row]), line)
                       IN  [ta EXCEPT !.lines = [removed EXCEPT ![row] = prev_line],
                                      !.cursor =
                                          <<row - 1, chars_count(prev_line) - 1>>]
             ELSE ta
        ELSE IF row >= Len(ta.lines) THEN Panic(ta)
             ELSE LET line == ta.lines[row + 1]
                      nth == char_indices_nth(line, col)
                  IN  IF nth = None THEN ta
                      ELSE [ta EXCEPT !.lines[row + 1] = String_remove(line, nth[1]),
                                      !.cursor = <<row, col - 1>>]

delete_char(ta) ==
    LET row == ta.cursor[1]
        col == ta.cursor[2]
    IN  IF col = 0
        THEN IF row > 0
             THEN IF row >= Len(ta.lines) THEN Panic(ta)
                  ELSE LET line == ta.lines[row + 1]
                           removed == Vec_remove(ta.lines, row)
                           prev_line ==
                               String_push_str(String_pop(removed[row]), line)
                           merged == [ta EXCEPT !.lines =
                                        [removed EXCEPT ![row] = prev_line]]
                       IN  IF Underflows(chars_count(prev_line))
                           THEN Panic(merged)
                           ELSE [merged EXCEPT !.cursor =
                                   <<row - 1, chars_count(prev_line) - 1>>]
             ELSE ta
        ELSE IF row >= Len(ta.lines) THEN Panic(ta)
             ELSE LET line == ta.lines[row + 1]
                      nth == char_indices_nth(line, col - 1)
                  IN  IF nth = None THEN ta
                      ELSE [ta EXCEPT !.lines[row + 1] = String_remove(line, nth[1]),
                                      !.cursor = <<row, col - 1>>]

\* cursor_forward comparing the column with the byte length of the line
cursor_forward_byte_len(ta) ==
    LET r == ta.cursor[1]
        c == ta.cursor[2]
    IN  IF r >= Len(ta.lines) THEN Panic(ta)
        ELSE IF c + 1 >= Len(ta.lines[r + 1])
        THEN IF r + 1 < Len(ta.lines)
             THEN [ta EXCEPT !.cursor = <<r + 1, 0>>]
             ELSE ta
        ELSE [ta EXCEPT !.cursor = <<r, c + 1>>]

cursor_forward(ta) ==
    LET r == ta.cursor[1]
        c == ta.cursor[2]
    IN  IF r >= Len(ta.lines) THEN Panic(ta)
        ELSE IF c + 1 >= chars_count(ta.lines[r + 1])
        THEN IF r + 1 < Len(ta.lines)
             THEN [ta EXCEPT !.cursor = <<r + 1, 0>>]
             ELSE ta
        ELSE [ta EXCEPT !.cursor = <<r, c + 1>>]

cursor_back(ta) ==
    LET r == ta.cursor[1]
        c == ta.cursor[2]
    IN  IF c = 0
        THEN IF r > 0
             THEN IF r - 1 >= Len(ta.lines) \/ Underflows(chars_count(ta.lines[r]))
                  THEN Panic(ta)
                  ELSE [ta EXCEPT !.cursor =
                          <<r - 1, chars_count(ta.lines[r]) - 1>>]
             ELSE ta
        ELSE [ta EXCEPT !.cursor = <<r, c - 1>>]

\* cursor_down that keeps the column whatever the length of the next line
cursor_down_unclamped(ta) ==
    IF ta.cursor[1] + 1 >= Len(ta.lines) THEN ta
    ELSE [ta EXCEPT !.cursor = <<ta.cursor[1] + 1, ta.cursor[2]>>]

cursor_down(ta) ==
    LET r == ta.cursor[1]
        c == ta.cursor[2]
    IN  IF r + 1 >= Len(ta.lines) THEN ta
        ELSE LET len == chars_count(ta.lines[r + 2])
             IN  IF len <= c
                 THEN IF Underflows(len)
                      THEN Panic([ta EXCEPT !.cursor = <<r + 1, c>>])
                      ELSE [ta EXCEPT !.cursor = <<r + 1, len - 1>>]
                 ELSE [ta EXCEPT !.cursor = <<r + 1, c>>]

\* cursor_up that keeps the column whatever the length of the previous line
cursor_up_unclamped(ta) ==
    IF ta.cursor[1] = 0 THEN ta
    ELSE [ta EXCEPT !.cursor = <<ta.cursor[1] - 1, ta.cursor[2]>>]

cursor_up(ta) ==
    LET r == ta.cursor[1]
        c == ta.cursor[2]
    IN  IF r = 0 THEN ta
        ELSE IF r - 1 >= Len(ta.lines) THEN Panic([ta EXCEPT !.cursor = <<r - 1, c>>])
        ELSE LET len == chars_count(ta.lines[r])
             IN  IF len <= c
                 THEN IF Underflows(len)
                      THEN Panic([ta EXCEPT !.cursor = <<r - 1, c>>])
                      ELSE [ta EXCEPT !.cursor = <<r - 1, len - 1>>]
                 ELSE [ta EXCEPT !.cursor = <<r - 1, c>>]

cursor_start(ta) == [ta EXCEPT !.cursor = <<ta.cursor[1], 0>>]

\* cursor_end that stops on the last character before the sentinel
cursor_end_before_sentinel(ta) ==
    LET n == chars_count(ta.lines[ta.cursor[1] + 1])
    IN  [ta EXCEPT !.cursor = <<ta.cursor[1], IF n >= 2 THEN n - 2 ELSE 0>>]

\* cursor_end taking the column from the byte length of the line
cursor_end_byte_len(ta) ==
    LET r == ta.cursor[1]
    IN  IF r >= Len(ta.lines) \/ Underflows(Len(ta.lines[r + 1]))
        THEN Panic(ta)
        ELSE [ta EXCEPT !.cursor = <<r, Len(ta.lines[r + 1]) - 1>>]

cursor_end(ta) ==
    LET r == ta.cursor[1]
    IN  IF r >= Len(ta.lines) \/ Underflows(chars_count(ta.lines[r + 1]))
        THEN Panic(ta)
        ELSE [ta EXCEPT !.cursor = <<r, chars_count(ta.lines[r + 1]) - 1>>]

\* tab without its assert!
tab_unchecked(ta, t) == [ta EXCEPT !.tab = t]

\* TextArea::tab: assert! is compiled into every build
tab(ta, t) ==
    IF \A i \in CharStarts(t) : char_at(t, i) = SPACE
    THEN [ta EXCEPT !.tab = t]
    ELSE Panic(ta)

\* lines that trims every trailing space, as str::trim_end_matches(' ')
RECURSIVE trim_end_spaces(_)
trim_end_spaces(l) ==
    IF l # <<>> /\ l[Len(l)] = SPACE
    THEN trim_end_spaces(SubSeq(l, 1, Len(l) - 1))
    ELSE l

lines_trim_end(ta) ==
    [panicked |-> FALSE,
     items |-> [k \in 1..Len(ta.lines) |-> trim_end_spaces(ta.lines[k])]]

\* TextArea::lines, collected: `items` when no slice panics.  l.len() - 1
\* underflows on an empty line (a panic, or a wrap and then a slice out of
\* range); a slice that ends inside a character panics
lines(ta) ==
    LET bad(l) == l = <<>> \/ ~is_char_boundary(l, Len(l) - 1)
    IN  IF \E k \in 1..Len(ta.lines) : bad(ta.lines[k])
        THEN [panicked |-> TRUE, items |-> <<>>]
        ELSE [panicked |-> FALSE,
              items |-> [k \in 1..Len(ta.lines) |->
                            slice(ta.lines[k], 0, Len(ta.lines[k]) - 1)]]

\* TextArea::cursor
cursor(ta) == ta.cursor

\* a Span: its text, and whether its style is Modifier::REVERSED
Span_from(content) == [content |-> content, reversed |-> FALSE]
Span_styled_reversed(content) == [content |-> content, reversed |-> TRUE]

\* widget highlighting one byte at the cursor, j = i + 1
widget_one_byte(ta) ==
    LET spans(k) ==
            LET l == ta.lines[k]
                nth == char_indices_nth(l, ta.cursor[2])
                i == IF nth = None THEN Len(l) - 1 ELSE nth[1]
                j == i + 1
            IN  IF k - 1 = ta.cursor[1]
                THEN <<Span_from(slice(l, 0, i)),
                       Span_styled_reversed(slice(l, i, j)),
                       Span_from(slice(l, j, Len(l)))>>
                ELSE <<Span_from(l)>>
    IN  [panicked |-> FALSE,
         lines |-> [k \in 1..Len(ta.lines) |-> spans(k)]]

\* TextArea::widget: the Spans of every line, which the Paragraph is made of
\* (style and block are passed through).  unwrap_or's argument l.len() - 1
\* is evaluated first; a slice that ends inside a character panics
widget(ta) ==
    LET bad(k) ==
            /\ k - 1 = ta.cursor[1]
            /\ LET l == ta.lines[k]
                   nth == char_indices_nth(l, ta.cursor[2])
               IN  \/ Underflows(Len(l))
                   \/ nth = None /\ ~is_char_boundary(l, Len(l) - 1)
        spans(k) ==
            LET l == ta.lines[k]
                nth == char_indices_nth(l, ta.cursor[2])
                i == IF nth = None THEN Len(l) - 1 ELSE nth[1]
                c == IF nth = None THEN SPACE ELSE char_at(l, i)
                j == i + len_utf8(c)
            IN  IF k - 1 = ta.cursor[1]
                THEN <<Span_from(slice(l, 0, i)),
                       Span_styled_reversed(slice(l, i, j)),
                       Span_from(slice(l, j, Len(l)))>>
                ELSE <<Span_from(l)>>
    IN  IF \E k \in 1..Len(ta.lines) : bad(k)
        THEN [panicked |-> TRUE, lines |-> <<>>]
        ELSE [panicked |-> FALSE,
              lines |-> [k \in 1..Len(ta.lines) |-> spans(k)]]

---------------------------------------------------------------------------
(* Key, Input and the conversions from crossterm's events *)

\* enum Key: the named keys carry no character
Key_Char(c) == [code |-> "Char", ch |-> c]
Key_Named(name) == [code |-> name, ch |-> 0]
Key_Null == Key_Named("Null")

\* the key codes of crossterm the conversion names, besides Char(c)
RecognizedCodes ==
    {"Backspace", "Enter", "Left", "Right", "Up", "Down", "Tab", "Delete",
     "Home", "End"}

\* impl Default for Input
Input_default == [key |-> Key_Null, ctrl |-> FALSE]

\* a conversion that gives the default Input for a code it does not name
Input_from_KeyEvent_default_on_unknown(key) ==
    IF key.code = "Char"
    THEN [key |-> Key_Char(key.ch), ctrl |-> "CONTROL" \in key.modifiers]
    ELSE IF key.code \in RecognizedCodes
    THEN [key |-> Key_Named(key.code), ctrl |-> "CONTROL" \in key.modifiers]
    ELSE Input_default

\* impl From<crossterm::event::KeyEvent> for Input.  A KeyEvent is
\* [code, ch, modifiers]: the KeyCode's name, Char's character (0 otherwise)
\* and the set of modifiers held
Input_from_KeyEvent(key) ==
    LET ctrl == "CONTROL" \in key.modifiers
        k == IF key.code = "Char" THEN Key_Char(key.ch)
             ELSE IF key.code \in RecognizedCodes THEN Key_Named(key.code)
             ELSE Key_Null
    IN  [key |-> k, ctrl |-> ctrl]

\* impl From<crossterm::event::Event> for Input.  An Event is
\* [kind, code, ch, modifiers], kind "Key" for Event::Key(KeyEvent)
Input_from_Event(ev) ==
    IF ev.kind = "Key"
    THEN Input_from_KeyEvent([code |-> ev.code, ch |-> ev.ch,
                              modifiers |-> ev.modifiers])
    ELSE Input_default

\* the match of TextArea::input, lines 91-117
dispatch(ta, in) ==
    IF in.ctrl
    THEN CASE in.key = Key_Char(CH_h) -> delete_char(ta)
           [] in.key = Key_Char(CH_m) -> insert_newline(ta)
           [] in.key = Key_Char(CH_p) -> cursor_up(ta)
           [] in.key = Key_Char(CH_f) -> cursor_forward(ta)
           [] in.key = Key_Char(CH_n) -> cursor_down(ta)
           [] in.key = Key_Char(CH_b) -> cursor_back(ta)
           [] in.key = Key_Char(CH_a) -> cursor_start(ta)
           [] in.key = Key_Char(CH_e) -> cursor_end(ta)
           [] OTHER -> ta
    ELSE CASE in.key.code = "Char" -> insert_char(ta, in.key.ch)
           [] in.key.code = "Backspace" -> delete_char(ta)
           [] in.key.code = "Tab" -> insert_tab(ta)
           [] in.key.code = "Enter" -> insert_newline(ta)
           [] in.key.code = "Up" -> cursor_up(ta)
           [] in.key.code = "Right" -> cursor_forward(ta)
           [] in.key.code = "Down" -> cursor_down(ta)
           [] in.key.code = "Left" -> cursor_back(ta)
           [] in.key.code = "Home" -> cursor_start(ta)
           [] in.key.code = "End" -> cursor_end(ta)
           [] OTHER -> ta

\* the debug_assert!s of TextArea::input, lines 119-145: whether one fails
invariants_fail(ta) ==
    \/ ta.lines = <<>>
    \/ \E k \in 1..Len(ta.lines) : ~ends_with(ta.lines[k], SPACE)
    \/ ~(Len(ta.lines) > ta.cursor[1])
    \/ ~(chars_count(ta.lines[ta.cursor[1] + 1]) > ta.cursor[2])

\* input that dispatches by the plain table whether ctrl is held or not
input_ignoring_ctrl(ta, in) ==
    LET after == dispatch(ta, [in EXCEPT !.ctrl = FALSE])
    IN  IF ~after.panicked /\ invariants_fail(after)
        THEN Panic(after)
        ELSE after

\* TextArea::input, on an Input (into() is the identity on an Input)
input(ta, in) ==
    LET after == dispatch(ta, in)
    IN  IF ~after.panicked /\ invariants_fail(after)
        THEN Panic(after)
        ELSE after

---------------------------------------------------------------------------
(* The inputs the model draws *)

\* the characters typed: 'a', 'b', ' ', '\n' and U+00E9 (two bytes)
TypedChars == {97, 98, 32, 10, 233}

\* the characters pressed with ctrl: the eight of the table, and 'c'
CtrlChars == {CH_h, CH_m, CH_p, CH_f, CH_n, CH_b, CH_a, CH_e, 99}

NamedKeys == RecognizedCodes \cup {"Null"}

\* every normalized input over the characters of the model
AllInputs ==
    {[key |-> Key_Char(c), ctrl |-> b] :
        c \in TypedChars \cup CtrlChars, b \in BOOLEAN}
    \cup {[key |-> Key_Named(n), ctrl |-> b] : n \in NamedKeys, b \in BOOLEAN}

\* the inputs the editing machine dispatches: every typed character, every
\* key alone, the ctrl characters, and ctrl with Backspace and with Tab
DispatchedInputs ==
    {[key |-> Key_Char(c), ctrl |-> FALSE] : c \in TypedChars}
    \cup {[key |-> Key_Char(c), ctrl |-> TRUE] : c \in CtrlChars}
    \cup {[key |-> Key_Named(n), ctrl |-> FALSE] : n \in NamedKeys}
    \cup {[key |-> Key_Named(n), ctrl |-> TRUE] : n \in {"Backspace", "Tab"}}

\* arguments of insert_str: "", "ab", "\u{e9} ", "\n", "a\n"
StrArgs ==
    {from_chars(<<>>), from_chars(<<97, 98>>), from_chars(<<233, 32>>),
     from_chars(<<10>>), from_chars(<<97, 10>>)}

\* arguments of tab: "", "  ", and the invalid "\t", " a", "\u{e9} "
TabArgs ==
    {from_chars(<<>>), from_chars(<<32, 32>>),
     from_chars(<<9>>), from_chars(<<32, 97>>), from_chars(<<233, 32>>)}

\* crossterm's events: key events over some codes the conversion names and
\* some it does not, with every set of modifiers, and events that are no key
KeyCodes ==
    RecognizedCodes \cup {"BackTab", "Insert", "PageUp", "PageDown", "F", "Null", "Esc"}
Modifiers == SUBSET {"SHIFT", "CONTROL", "ALT"}
KeyEvents ==
    {[kind |-> "Key", code |-> "Char", ch |-> c, modifiers |-> m] :
        c \in TypedChars \cup CtrlChars, m \in Modifiers}
    \cup {[kind |-> "Key", code |-> k, ch |-> 0, modifiers |-> m] :
        k \in KeyCodes, m \in Modifiers}
OtherEvents ==
    {[kind |-> k, code |-> "", ch |-> 0, modifiers |-> {}] : k \in {"Mouse", "Resize"}}
Events == KeyEvents \cup OtherEvents
NoEvent == [kind |-> "None", code |-> "", ch |-> 0, modifiers |-> {}]

---------------------------------------------------------------------------
(* The state machine *)

RECURSIVE total_chars(_)
total_chars(ls) ==
    IF ls = <<>> THEN 0 ELSE chars_count(Head(ls)) + total_chars(Tail(ls))

\* the text of the buffer stays within the model's bounds
WithinBounds(ta) ==
    total_chars(ta.lines) <= MaxCells

Init ==
    /\ textarea = TextArea_default
    /\ event = NoEvent
    /\ last_input = Input_default

\* a call may be made: no call has panicked, and what it returns is within
\* the model's bounds
Allowed(next) == ~textarea.panicked /\ WithinBounds(next)

InsertChar ==
    \E c \in TypedChars :
        LET next == insert_char(textarea, c)
        IN  Allowed(next) /\ textarea' = next /\ UNCHANGED <<event, last_input>>

InsertStr ==
    \E s \in StrArgs :
        LET next == insert_str(textarea, s)
        IN  Allowed(next) /\ textarea' = next /\ UNCHANGED <<event, last_input>>

InsertTab ==
    LET next == insert_tab(textarea)
    IN  Allowed(next) /\ textarea' = next /\ UNCHANGED <<event, last_input>>

InsertNewline ==
    LET next == insert_newline(textarea)
    IN  Allowed(next) /\ textarea' = next /\ UNCHANGED <<event, last_input>>

DeleteChar ==
    LET next == delete_char(textarea)
    IN  Allowed(next) /\ textarea' = next /\ UNCHANGED <<event, last_input>>

CursorForward ==
    LET next == cursor_forward(textarea)
    IN  Allowed(next) /\ textarea' = next /\ UNCHANGED <<event, last_input>>

CursorBack ==
    LET next == cursor_back(textarea)
    IN  Allowed(next) /\ textarea' = next /\ UNCHANGED <<event, last_input>>

CursorDown ==
    LET next == cursor_down(textarea)
    IN  Allowed(next) /\ textarea' = next /\ UNCHANGED <<event, last_input>>

CursorUp ==
    LET next == cursor_up(textarea)
    IN  Allowed(next) /\ textarea' = next /\ UNCHANGED <<event, last_input>>

CursorStart ==
    LET next == cursor_start(textarea)
    IN  Allowed(next) /\ textarea' = next /\ UNCHANGED <<event, last_input>>

CursorEnd ==
    LET next == cursor_end(textarea)
    IN  Allowed(next) /\ textarea' = next /\ UNCHANGED <<event, last_input>>

SetTab ==
    \E t \in TabArgs :
        LET next == tab(textarea, t)
        IN  Allowed(next) /\ textarea' = next /\ UNCHANGED <<event, last_input>>

InputKey ==
    \E in \in DispatchedInputs :
        LET next == input(textarea, in)
        IN  Allowed(next) /\ textarea' = next /\ UNCHANGED <<event, last_input>>

Next ==
    \/ InsertChar
    \/ InsertStr
    \/ InsertTab
    \/ InsertNewline
    \/ DeleteChar
    \/ CursorForward
    \/ CursorBack
    \/ CursorDown
    \/ CursorUp
    \/ CursorStart
    \/ CursorEnd
    \/ SetTab
    \/ InputKey

Spec == Init /\ [][Next]_vars

\* typing: every call is input(event), the event converted on the way in.
\* The characters pressed alone are 'a', 'b', 'c'; those of CtrlChars are
\* pressed with CONTROL held
TypingEvents ==
    {ev \in KeyEvents :
        ev.code = "Char" =>
            \/ ev.ch \in {97, 98, 99} /\ "CONTROL" \notin ev.modifiers
            \/ ev.ch \in CtrlChars /\ "CONTROL" \in ev.modifiers}
    \cup OtherEvents

TypeEvent ==
    \E ev \in TypingEvents :
        LET next == input(textarea, Input_from_Event(ev))
        IN  Allowed(next) /\ textarea' = next /\ UNCHANGED <<event, last_input>>

NextTyping == TypeEvent

SpecTyping == Init /\ [][NextTyping]_vars

\* editing: the operations on the text called one by one, over characters
\* of every UTF-8 width: 'a', 'b', U+00E9 (two bytes), U+20AC (three) and
\* U+1F600 (four)
EditChars == {97, 98, 233, 8364, 128512}

InsertEditChar ==
    \E c \in EditChars :
        LET next == insert_char(textarea, c)
        IN  Allowed(next) /\ textarea' = next /\ UNCHANGED <<event, last_input>>

\* widget() borrows the text area: it returns the spans, or it panics
Render ==
    LET next == IF widget(textarea).panicked THEN Panic(textarea) ELSE textarea
    IN  Allowed(next) /\ textarea' = next /\ UNCHANGED <<event, last_input>>

NextEdit ==
    \/ InsertEditChar
    \/ InsertNewline
    \/ DeleteChar
    \/ CursorForward
    \/ CursorBack
    \/ CursorDown
    \/ CursorUp
    \/ CursorStart
    \/ CursorEnd
    \/ Render

SpecEdit == Init /\ [][NextEdit]_vars

\* the key mapper alone: an event arrives and is converted
ConvertEvent ==
    \E ev \in Events :
        /\ event' = ev
        /\ last_input' = Input_from_Event(ev)
        /\ UNCHANGED textarea

NextKeyMapper == ConvertEvent

SpecKeyMapper == Init /\ [][NextKeyMapper]_vars

---------------------------------------------------------------------------
(* The claims *)

\* the state at hand
row == textarea.cursor[1]
col == textarea.cursor[2]
alive == ~textarea.panicked

\* whether a String holds the character ch
contains_char(s, ch) == \E i \in CharStarts(s) : char_at(s, i) = ch

\* C1: after any sequence of operations from the default buffer, the buffer
\* holds at least one line and every stored line ends with the sentinel
\* space as its final character.
C1_LinesEndWithSentinel ==
    /\ Len(textarea.lines) >= 1
    /\ \A k \in 1..Len(textarea.lines) :
          LET l == textarea.lines[k]
          IN  Len(l) >= 1 /\ l[Len(l)] = SPACE

\* C1's case: lines were split and a multi-byte character was typed
C1_Witness ==
    /\ alive
    /\ Len(textarea.lines) >= 3
    /\ \E k \in 1..Len(textarea.lines) :
          Len(textarea.lines[k]) > chars_count(textarea.lines[k])

\* C2: after any sequence of operations the cursor (row, col) satisfies
\* 0 <= row < lineCount and 0 <= col < charCount(line[row]), characters
\* counted, the sentinel among them.
C2_CursorInRange ==
    /\ 0 <= row /\ row < Len(textarea.lines)
    /\ 0 <= col /\ col < Len(chars(textarea.lines[row + 1]))

\* C2's case: the cursor stands on the sentinel of a line shorter, in
\* characters, than the line above it, while the bytes of its line outnumber
\* its characters
C2_Witness ==
    /\ alive
    /\ row > 0
    /\ col = chars_count(textarea.lines[row + 1]) - 1
    /\ chars_count(textarea.lines[row]) > chars_count(textarea.lines[row + 1])
    /\ Len(textarea.lines[row + 1]) > chars_count(textarea.lines[row + 1])

\* C3: lines() returns one string per stored line, in order, each the stored
\* line with its one trailing sentinel removed and nothing else changed; a
\* fresh buffer after typing 'a' then 'b' yields lines() == ["ab"] and
\* cursor() == (0,2).
C3_LinesDropOneSentinel ==
    /\ LET got == lines(textarea)
       IN  /\ ~got.panicked
           /\ Len(got.items) = Len(textarea.lines)
           /\ \A k \in 1..Len(textarea.lines) :
                 got.items[k] \o <<SPACE>> = textarea.lines[k]
    /\ LET typed == insert_char(insert_char(TextArea_default, CH_a), CH_b)
       IN  /\ lines(typed) = [panicked |-> FALSE, items |-> <<(<<CH_a, CH_b>>)>>]
           /\ cursor(typed) = <<0, 2>>

\* C3's case: "ab" was typed into a fresh buffer, and a line of the buffer
\* may as well end with a space that is text
C3_Witness ==
    /\ alive
    /\ textarea.lines = <<(<<CH_a, CH_b, SPACE>>)>>
    /\ textarea.cursor = <<0, 2>>

\* C4: from any reachable state, insertNewline() followed by deleteChar()
\* leaves lines() exactly as it was.
C4_SplitThenMergeKeepsLines ==
    alive => lines(delete_char(insert_newline(textarea))) = lines(textarea)

\* C4's case: the cursor is inside the text of a line that has lines on
\* both sides, so that the split cuts text and the merge joins it
C4_Witness ==
    /\ alive
    /\ row > 0 /\ row + 1 < Len(textarea.lines)
    /\ col > 0 /\ col + 1 < chars_count(textarea.lines[row + 1])
    /\ Len(insert_newline(textarea).lines) = Len(textarea.lines) + 1
    /\ delete_char(insert_newline(textarea)).lines = textarea.lines

\* C5: when deleteChar() merges line row (cursor at column 0, row > 0) into
\* line row-1, the cursor ends on the join point: its column is the number
\* of logical characters the previous line had; so insertNewline() followed
\* by deleteChar() restores the cursor for every starting column.
C5_MergeLeavesCursorAtJoin ==
    /\ (alive /\ col = 0 /\ row > 0) =>
          cursor(delete_char(textarea)) =
              <<row - 1, chars_count(textarea.lines[row]) - 1>>
    /\ alive => cursor(delete_char(insert_newline(textarea))) = cursor(textarea)

\* the input {Char(c), ctrl}
Ctrl(c) == [key |-> Key_Char(c), ctrl |-> TRUE]

\* the buffer of C6: the one line "abc", the cursor at (0,0)
C6_AtStartOfAbc ==
    /\ alive
    /\ lines(textarea) = [panicked |-> FALSE, items |-> <<(<<CH_a, CH_b, 99>>)>>]
    /\ cursor(textarea) = <<0, 0>>

\* C6 as claimed: on "abc" with cursor (0,0), ctrl+e leaves cursor() == (0,2)
\* and then ctrl+a leaves cursor() == (0,0); lines() is unchanged by both.
C6_CtrlEGoesToLastLetter ==
    C6_AtStartOfAbc =>
        LET e == input(textarea, Ctrl(CH_e))
            a == input(e, Ctrl(CH_a))
        IN  /\ cursor(e) = <<0, 2>>
            /\ cursor(a) = <<0, 0>>
            /\ lines(e) = lines(textarea) /\ lines(a) = lines(textarea)

\* C6, amended: on "abc" with cursor (0,0), ctrl+e leaves cursor() == (0,3),
\* the sentinel, and then ctrl+a leaves cursor() == (0,0); lines() is
\* unchanged by both.
C6_CtrlEGoesToSentinel ==
    C6_AtStartOfAbc =>
        LET e == input(textarea, Ctrl(CH_e))
            a == input(e, Ctrl(CH_a))
        IN  /\ cursor(e) = <<0, 3>>
            /\ cursor(a) = <<0, 0>>
            /\ ~e.panicked /\ ~a.panicked
            /\ lines(e) = lines(textarea) /\ lines(a) = lines(textarea)

\* C6's case: "abc" was typed and the cursor brought to (0,0), from where
\* ctrl+e moves it
C6_Witness ==
    /\ C6_AtStartOfAbc
    /\ cursor(input(textarea, Ctrl(CH_e))) # cursor(textarea)

\* C7: insertText(s) checks its argument: when s holds a line break the
\* check trips and no line gains a line break through insertText; when s
\* holds none the check does not trip, whatever the buffer holds.
C7_InsertStrChecksArgument ==
    alive =>
        \A s \in StrArgs :
            LET after == insert_str(textarea, s)
            IN  IF contains_char(s, NEWLINE)
                THEN after.panicked /\ after.lines = textarea.lines
                ELSE ~after.panicked

\* an event that lacks a recognized key code: no key event, or a key event
\* whose code is none of Char, Backspace, Enter, Left, Right, Up, Down, Tab,
\* Delete, Home, End
Unrecognized(ev) ==
    ev.kind # "Key" \/ ev.code \notin (RecognizedCodes \cup {"Char"})

\* C8 as claimed: every event that lacks a recognized key code, whatever
\* modifiers are held, maps to exactly {key: Null, ctrl: false}.
C8_UnrecognizedIsNullWithoutCtrl ==
    (event # NoEvent /\ Unrecognized(event)) =>
        last_input = [key |-> Key_Null, ctrl |-> FALSE]

\* C8, amended: the mapping is total, and every event that lacks a
\* recognized key code maps to the key Null; ctrl is false for an event that
\* is no key event, and for a key event it tells whether CONTROL is held.
C8_UnrecognizedIsNullKeepingCtrl ==
    (event # NoEvent /\ Unrecognized(event)) =>
        /\ last_input.key = Key_Null
        /\ last_input.ctrl =
              (event.kind = "Key" /\ "CONTROL" \in event.modifiers)

\* C8's case: a key the conversion does not name was pressed with CONTROL
\* held and converted
C8_Witness ==
    /\ event.kind = "Key" /\ event.code = "PageUp"
    /\ event.modifiers = {"CONTROL", "SHIFT"}
    /\ last_input = [key |-> Key_Null, ctrl |-> TRUE]

\* the input {key, ctrl: false}
Plain(name) == [key |-> Key_Named(name), ctrl |-> FALSE]

\* the two tables of C9: the operation an input is dispatched to, by name
C9_Table(in) ==
    IF in.ctrl
    THEN IF in.key.code # "Char" THEN "none"
         ELSE CASE in.key.ch = CH_h -> "deleteChar"
                [] in.key.ch = CH_m -> "insertNewline"
                [] in.key.ch = CH_p -> "cursorUp"
                [] in.key.ch = CH_n -> "cursorDown"
                [] in.key.ch = CH_f -> "cursorForward"
                [] in.key.ch = CH_b -> "cursorBack"
                [] in.key.ch = CH_a -> "cursorStart"
                [] in.key.ch = CH_e -> "cursorEnd"
                [] OTHER -> "none"
    ELSE CASE in.key.code = "Char" -> "insertChar"
           [] in.key.code = "Backspace" -> "deleteChar"
           [] in.key.code = "Tab" -> "insertTab"
           [] in.key.code = "Enter" -> "insertNewline"
           [] in.key.code = "Up" -> "cursorUp"
           [] in.key.code = "Right" -> "cursorForward"
           [] in.key.code = "Down" -> "cursorDown"
           [] in.key.code = "Left" -> "cursorBack"
           [] in.key.code = "Home" -> "cursorStart"
           [] in.key.code = "End" -> "cursorEnd"
           [] OTHER -> "none"

\* the operation of that name, called on the buffer itself
C9_Operation(ta, name, c) ==
    CASE name = "insertChar" -> insert_char(ta, c)
      [] name = "insertTab" -> insert_tab(ta)
      [] name = "insertNewline" -> insert_newline(ta)
      [] name = "deleteChar" -> delete_char(ta)
      [] name = "cursorUp" -> cursor_up(ta)
      [] name = "cursorDown" -> cursor_down(ta)
      [] name = "cursorForward" -> cursor_forward(ta)
      [] name = "cursorBack" -> cursor_back(ta)
      [] name = "cursorStart" -> cursor_start(ta)
      [] name = "cursorEnd" -> cursor_end(ta)

\* C9: for every reachable state and every normalized input, input() has
\* exactly the effect of the operation the two tables name, and every pair
\* not in the tables leaves lines() and cursor() unchanged; a ctrl-modified
\* Char never inserts text.
C9_InputFollowsTables ==
    alive =>
        \A in \in AllInputs :
            LET after == input(textarea, in)
                name == C9_Table(in)
            IN  /\ IF name = "none"
                   THEN /\ lines(after) = lines(textarea)
                        /\ cursor(after) = cursor(textarea)
                        /\ ~after.panicked
                   ELSE after = C9_Operation(textarea, name, in.key.ch)
                /\ (in.ctrl /\ in.key.code = "Char") =>
                      total_chars(after.lines) - Len(after.lines)
                          <= total_chars(textarea.lines) - Len(textarea.lines)

\* C9's case: the cursor is inside the middle line of three, where each of
\* the eight ctrl characters and each of the keys they stand for moves the
\* cursor or edits the text, each pair alike
C9_Witness ==
    /\ alive
    /\ Len(textarea.lines) = 3 /\ row = 1 /\ col = 1
    /\ chars_count(textarea.lines[2]) = 3
    /\ \A c \in {CH_h, CH_m, CH_p, CH_n, CH_f, CH_b, CH_a, CH_e} :
          input(textarea, Ctrl(c)) # textarea
    /\ input(textarea, Ctrl(CH_p)) = input(textarea, Plain("Up"))
    /\ input(textarea, Ctrl(CH_n)) = input(textarea, Plain("Down"))
    /\ input(textarea, Ctrl(99)) = textarea

\* C10: setting the indentation string to a string that holds a character
\* other than a space fails at once and the string configured before stays
\* (the invalid one is never stored, so no insertTab uses it); setting it to
\* zero or more spaces succeeds and changes neither lines() nor cursor().
C10_TabChecksItsArgument ==
    /\ \A i \in 1..Len(textarea.tab) : textarea.tab[i] = SPACE
    /\ alive =>
          \A t \in TabArgs :
              LET after == tab(textarea, t)
              IN  IF \A i \in 1..Len(t) : t[i] = SPACE
                  THEN /\ ~after.panicked
                       /\ after.tab = t
                       /\ lines(after) = lines(textarea)
                       /\ cursor(after) = cursor(textarea)
                  ELSE /\ after.panicked
                       /\ after.tab = textarea.tab
                       /\ after.lines = textarea.lines
                       /\ after.cursor = textarea.cursor

\* C10's case: the indentation string was set to two spaces, an insertTab
\* used it, and a later attempt to set an invalid one failed
C10_Witness ==
    /\ textarea.panicked
    /\ textarea.tab = <<SPACE, SPACE>>
    /\ textarea.lines = <<(<<SPACE, SPACE, SPACE>>)>>
    /\ textarea.cursor = <<0, 2>>

\* the sequence cs with x put in before its element at 0-based offset k
insert_at(cs, k, x) == SubSeq(cs, 1, k) \o <<x>> \o SubSeq(cs, k + 1, Len(cs))

\* the sequence cs without its element at 0-based offset k
remove_at(cs, k) == SubSeq(cs, 1, k) \o SubSeq(cs, k + 2, Len(cs))

\* whether two buffers differ at most in the line of 0-based row r
same_but_row(ls1, ls2, r) ==
    /\ Len(ls1) = Len(ls2)
    /\ \A k \in 1..Len(ls1) : k # r + 1 => ls1[k] = ls2[k]

\* C11: insertChar(c), for a character of any encoded width from one to
\* four bytes, puts c in before the character the cursor is on: the line
\* gains exactly one character, the column grows by exactly one (not by the
\* byte width), the row stays and no other line changes; one cursorBack
\* afterwards lands on c and one cursorForward leaves it again, each moving
\* by one column.
C11_InsertCharAdvancesOneColumn ==
    alive =>
        \A c \in EditChars :
            LET after == insert_char(textarea, c)
                back == cursor_back(after)
                forth == cursor_forward(back)
            IN  /\ ~after.panicked
                /\ chars(after.lines[row + 1])
                       = insert_at(chars(textarea.lines[row + 1]), col, c)
                /\ chars_count(after.lines[row + 1])
                       = chars_count(textarea.lines[row + 1]) + 1
                /\ after.cursor = <<row, col + 1>>
                /\ same_but_row(after.lines, textarea.lines, row)
                /\ back.cursor = <<row, col>>
                /\ back.lines = after.lines
                /\ chars(back.lines[row + 1])[col + 1] = c
                /\ forth.cursor = <<row, col + 1>>
                /\ forth.lines = after.lines

\* C11's case: U+1F600, four bytes wide, was put in between 'a' and U+20AC
\* on the second line, and the cursor stands one column after it
C11_Witness ==
    /\ alive
    /\ textarea.lines = <<from_chars(<<SPACE>>),
                          from_chars(<<97, 128512, 8364, SPACE>>)>>
    /\ textarea.cursor = <<1, 2>>

\* C12: insertNewline() with the cursor at (row, col) splits only the
\* current line: line row becomes the first col characters of the old line
\* and a fresh sentinel, line row+1 the old line from character col to its
\* end with the old sentinel, the lines before row stay, the lines after row
\* move down by one, the line count grows by one and the cursor is
\* (row+1, 0).  "ab" with cursor (0,1) becomes ["a","b"] with cursor (1,0).
C12_NewlineSplitsCurrentLine ==
    /\ alive =>
          LET after == insert_newline(textarea)
              old == chars(textarea.lines[row + 1])
              n == Len(textarea.lines)
          IN  /\ ~after.panicked
              /\ Len(after.lines) = n + 1
              /\ chars(after.lines[row + 1]) = SubSeq(old, 1, col) \o <<SPACE>>
              /\ chars(after.lines[row + 2]) = SubSeq(old, col + 1, Len(old))
              /\ \A k \in 1..row : after.lines[k] = textarea.lines[k]
              /\ \A k \in (row + 2)..n : after.lines[k + 1] = textarea.lines[k]
              /\ after.cursor = <<row + 1, 0>>
    /\ LET ab == [TextArea_default EXCEPT
                     !.lines = <<from_chars(<<CH_a, CH_b, SPACE>>)>>,
                     !.cursor = <<0, 1>>]
       IN  /\ lines(insert_newline(ab)).items
                 = <<from_chars(<<CH_a>>), from_chars(<<CH_b>>)>>
           /\ cursor(insert_newline(ab)) = <<1, 0>>

\* C12's case: a first line "a" + U+20AC was split between its two
\* characters while an empty line followed it, which moved down to the
\* third row
C12_Witness ==
    /\ alive
    /\ textarea.lines = <<from_chars(<<CH_a, SPACE>>),
                          from_chars(<<8364, SPACE>>),
                          from_chars(<<SPACE>>)>>
    /\ textarea.cursor = <<1, 0>>

\* C13: deleteChar() with the cursor at column 0 of a row > 0 removes line
\* row, makes line row-1 the old line row-1 without its sentinel followed by
\* the whole old line row with its sentinel, leaves every other line as it
\* was, lowers the line count by one and puts the cursor at
\* (row-1, charCount(mergedLine) - 1).
C13_DeleteAtLineStartMerges ==
    (alive /\ col = 0 /\ row > 0) =>
        LET after == delete_char(textarea)
            n == Len(textarea.lines)
            prev == chars(textarea.lines[row])
            line == chars(textarea.lines[row + 1])
        IN  /\ ~after.panicked
            /\ Len(after.lines) = n - 1
            /\ chars(after.lines[row]) = SubSeq(prev, 1, Len(prev) - 1) \o line
            /\ \A k \in 1..(row - 1) : after.lines[k] = textarea.lines[k]
            /\ \A k \in (row + 2)..n : after.lines[k - 1] = textarea.lines[k]
            /\ after.cursor = <<row - 1, chars_count(after.lines[row]) - 1>>

\* C13's case: the cursor is at the start of the second of three lines,
\* "a" after U+00E9 and before an empty line, where deleteChar() merges
C13_Witness ==
    /\ alive
    /\ textarea.lines = <<from_chars(<<233, SPACE>>),
                          from_chars(<<CH_a, SPACE>>),
                          from_chars(<<SPACE>>)>>
    /\ textarea.cursor = <<1, 0>>
    /\ delete_char(textarea).lines = <<from_chars(<<233, CH_a, SPACE>>),
                                       from_chars(<<SPACE>>)>>
    /\ delete_char(textarea).cursor = <<0, 2>>

\* C14: cursorEnd() sets the column to charCount(currentLine) - 1, the
\* sentinel counted, so the cursor lands on the line's sentinel (the column
\* is the number of logical characters); cursorStart() sets the column to
\* 0; both keep the row, leave the lines as they are and are idempotent.
C14_StartAndEndOfLine ==
    alive =>
        LET e == cursor_end(textarea)
            s == cursor_start(textarea)
            line == textarea.lines[row + 1]
        IN  /\ ~e.panicked /\ ~s.panicked
            /\ e.cursor = <<row, chars_count(line) - 1>>
            /\ e.cursor[2] = Len(chars(lines(textarea).items[row + 1]))
            /\ chars(line)[e.cursor[2] + 1] = SPACE
            /\ e.cursor[2] + 1 = Len(chars(line))
            /\ s.cursor = <<row, 0>>
            /\ e.lines = textarea.lines /\ s.lines = textarea.lines
            /\ cursor_end(e) = e
            /\ cursor_start(s) = s

\* C14's case: on the second line, "a" + U+1F600 + "b", the cursor stands in
\* the middle, so that cursorEnd() and cursorStart() both move it
C14_Witness ==
    /\ alive
    /\ textarea.lines = <<from_chars(<<SPACE>>),
                          from_chars(<<CH_a, 128512, CH_b, SPACE>>)>>
    /\ textarea.cursor = <<1, 1>>
    /\ cursor_end(textarea).cursor = <<1, 3>>
    /\ cursor_start(textarea).cursor = <<1, 0>>

\* the sequence of n spaces
spaces(n) == [k \in 1..n |-> SPACE]

\* C15: insertTab() with a non-empty indentation string of width w and the
\* cursor at column c inserts exactly w - (c mod w) spaces before the
\* cursor, so that the new column is the smallest multiple of w greater
\* than c and between 1 and w spaces are inserted; with an empty
\* indentation string insertTab() changes neither the lines nor the cursor.
C15_TabFillsToNextStop ==
    alive =>
        LET after == insert_tab(textarea)
            w == Len(textarea.tab)
            n == w - (col % w)
            old == chars(textarea.lines[row + 1])
        IN  IF w = 0
            THEN after = textarea
            ELSE /\ ~after.panicked
                 /\ n >= 1 /\ n <= w
                 /\ chars(after.lines[row + 1])
                        = SubSeq(old, 1, col) \o spaces(n)
                              \o SubSeq(old, col + 1, Len(old))
                 /\ same_but_row(after.lines, textarea.lines, row)
                 /\ after.cursor = <<row, col + n>>
                 /\ (col + n) % w = 0
                 /\ \A m \in (col + 1)..(col + n - 1) : m % w # 0

\* the smaller of two numbers
Min(a, b) == IF a <= b THEN a ELSE b

\* C16: cursorDown() (cursorUp()) moves the row by +1 (-1) exactly when
\* that row exists and changes nothing otherwise; when it moves, the new
\* column is min(oldColumn, charCount(targetLine) - 1): kept when the target
\* line is long enough, the target's sentinel when it is shorter.  The
\* lines are never modified.
C16_VerticalMoveClampsColumn ==
    alive =>
        LET down == cursor_down(textarea)
            up == cursor_up(textarea)
            n == Len(textarea.lines)
        IN  /\ ~down.panicked /\ ~up.panicked
            /\ down.lines = textarea.lines /\ up.lines = textarea.lines
            /\ IF row + 1 < n
               THEN down.cursor
                        = <<row + 1,
                            Min(col, chars_count(textarea.lines[row + 2]) - 1)>>
               ELSE down.cursor = textarea.cursor
            /\ IF row > 0
               THEN up.cursor
                        = <<row - 1,
                            Min(col, chars_count(textarea.lines[row]) - 1)>>
               ELSE up.cursor = textarea.cursor

\* C16's case: the cursor is on U+20AC in the middle one of three lines,
\* whose neighbours are empty, so that both moves land on a sentinel
C16_Witness ==
    /\ alive
    /\ textarea.lines = <<from_chars(<<SPACE>>),
                          from_chars(<<CH_a, 8364, SPACE>>),
                          from_chars(<<SPACE>>)>>
    /\ textarea.cursor = <<1, 1>>
    /\ cursor_up(textarea).cursor = <<0, 0>>
    /\ cursor_down(textarea).cursor = <<2, 0>>

\* C17: cursorForward() advances the column by one unless the cursor is on
\* the line's last character, its sentinel, where it moves to (row+1, 0) if
\* a next line exists and does nothing otherwise; cursorBack() decrements
\* the column if it is > 0, else moves to the sentinel of the previous line
\* if row > 0, else does nothing.  They are inverse: whenever one of them
\* changes the cursor, the other one, called next, restores it.  Neither
\* modifies the lines.
C17_ForwardAndBackAreInverse ==
    alive =>
        LET fwd == cursor_forward(textarea)
            back == cursor_back(textarea)
            n == Len(textarea.lines)
            last == chars_count(textarea.lines[row + 1]) - 1
        IN  /\ ~fwd.panicked /\ ~back.panicked
            /\ fwd.lines = textarea.lines /\ back.lines = textarea.lines
            /\ fwd.cursor = IF col # last THEN <<row, col + 1>>
                            ELSE IF row + 1 < n THEN <<row + 1, 0>>
                            ELSE <<row, col>>
            /\ back.cursor
                   = IF col > 0 THEN <<row, col - 1>>
                     ELSE IF row > 0
                     THEN <<row - 1, chars_count(textarea.lines[row]) - 1>>
                     ELSE <<row, col>>
            /\ fwd.cursor # textarea.cursor => cursor_back(fwd) = textarea
            /\ back.cursor # textarea.cursor => cursor_forward(back) = textarea

\* C17's case: the cursor is at the start of the second line, after a line
\* that ends with U+1F600: cursorBack() crosses to the first line's
\* sentinel and cursorForward() from there comes back
C17_Witness ==
    /\ alive
    /\ textarea.lines = <<from_chars(<<CH_a, 128512, SPACE>>),
                          from_chars(<<CH_b, SPACE>>)>>
    /\ textarea.cursor = <<1, 0>>
    /\ cursor_back(textarea).cursor = <<0, 2>>
    /\ cursor_forward(cursor_back(textarea)).cursor = <<1, 0>>
    /\ cursor_forward(textarea).cursor = <<1, 1>>

\* C18: the spans made for rendering have one entry per stored line; the
\* cursor's row is three spans, the text before the cursor's character
\* offset, exactly the one character at that offset, highlighted, and the
\* text after it, which put together are the stored line with its sentinel,
\* also when that character is multi-byte or is the sentinel; every other
\* row is one span, not highlighted, equal to the stored line.  Making them
\* changes neither the lines nor the cursor.
C18_WidgetSpans ==
    alive =>
        LET w == widget(textarea)
        IN  /\ ~w.panicked
            /\ Len(w.lines) = Len(textarea.lines)
            /\ \A k \in 1..Len(textarea.lines) :
                  LET l == textarea.lines[k]
                      sp == w.lines[k]
                  IN  IF k = row + 1
                      THEN /\ Len(sp) = 3
                           /\ sp[1].content \o sp[2].content \o sp[3].content = l
                           /\ chars(sp[1].content) = SubSeq(chars(l), 1, col)
                           /\ sp[2].content = encode_utf8(chars(l)[col + 1])
                           /\ chars(sp[3].content)
                                  = SubSeq(chars(l), col + 2, Len(chars(l)))
                           /\ ~sp[1].reversed /\ sp[2].reversed /\ ~sp[3].reversed
                      ELSE sp = <<[content |-> l, reversed |-> FALSE]>>
            /\ LET rendered == IF w.panicked THEN Panic(textarea) ELSE textarea
               IN  /\ rendered.lines = textarea.lines
                   /\ rendered.cursor = textarea.cursor

\* C18's case: the cursor is on U+1F600, four bytes wide, between 'a' and
\* 'b' on the first of two lines
C18_Witness ==
    /\ alive
    /\ textarea.lines = <<from_chars(<<CH_a, 128512, CH_b, SPACE>>),
                          from_chars(<<SPACE>>)>>
    /\ textarea.cursor = <<0, 1>>
    /\ widget(textarea).lines[1][2].content = <<240, 159, 152, 128>>

\* C19: typing and backspace round trip: in any reachable state and for a
\* character c of any byte width, insertChar(c) and then deleteChar()
\* restore lines() and cursor() exactly; deleteChar() with column > 0
\* removes precisely the character at column-1 of the current line, never
\* the sentinel, and decrements the column by one.
C19_TypeThenBackspace ==
    alive =>
        /\ \A c \in EditChars :
              LET after == delete_char(insert_char(textarea, c))
              IN  /\ ~after.panicked
                  /\ lines(after) = lines(textarea)
                  /\ cursor(after) = cursor(textarea)
        /\ col > 0 =>
              LET after == delete_char(textarea)
                  old == chars(textarea.lines[row + 1])
                  new == chars(after.lines[row + 1])
              IN  /\ ~after.panicked
                  /\ new = remove_at(old, col - 1)
                  /\ col - 1 < Len(old) - 1
                  /\ new[Len(new)] = SPACE
                  /\ Len(new) = Len(old) - 1
                  /\ same_but_row(after.lines, textarea.lines, row)
                  /\ after.cursor = <<row, col - 1>>

\* C19's case: the cursor stands right after U+1F600 and before 'b' on the
\* second line, where deleteChar() removes the four bytes of U+1F600
C19_Witness ==
    /\ alive
    /\ textarea.lines = <<from_chars(<<SPACE>>),
                          from_chars(<<233, 128512, CH_b, SPACE>>)>>
    /\ textarea.cursor = <<1, 2>>
    /\ delete_char(textarea).lines = <<from_chars(<<SPACE>>),
                                       from_chars(<<233, CH_b, SPACE>>)>>

\* the logical text from the cursor to the end of the buffer, line by line:
\* the rest of the cursor's line without its sentinel, then lines() below
text_after_cursor(ta) ==
    LET r == ta.cursor[1]
        l == chars(ta.lines[r + 1])
    IN  <<SubSeq(l, ta.cursor[2] + 1, Len(l) - 1)>>
            \o [k \in 1..(Len(ta.lines) - r - 1) |->
                   chars(lines(ta).items[r + 1 + k])]

\* the number of logical characters, the sentinels left out
text_chars(ta) == total_chars(ta.lines) - Len(ta.lines)

\* total character count + line count
measure(ta) == text_chars(ta) + Len(ta.lines)

\* deleteChar() repeated until the cursor is at (0,0), at most n times
RECURSIVE backspace_all(_, _)
backspace_all(ta, n) ==
    IF n = 0 \/ ta.panicked \/ ta.cursor = <<0, 0>> THEN ta
    ELSE backspace_all(delete_char(ta), n - 1)

\* C20: deleteChar() at cursor (0,0) changes neither lines nor cursor, and
\* repeating deleteChar() reaches cursor (0,0) after finitely many steps:
\* every deleteChar() with the cursor not at (0,0) strictly decreases total
\* character count + line count by removing exactly one character or one
\* line boundary, the text after the cursor is left intact, and if the
\* cursor started at the end of the last line the fixed point is the
\* initial buffer, one line that holds the sentinel only.
C20_BackspaceToStartKeepsRest ==
    alive =>
        LET after == delete_char(textarea)
            fix == backspace_all(textarea, measure(textarea))
            n == Len(textarea.lines)
        IN  /\ textarea.cursor = <<0, 0>> => after = textarea
            /\ textarea.cursor # <<0, 0>> =>
                  /\ ~after.panicked
                  /\ measure(after) < measure(textarea)
                  /\ \/ /\ Len(after.lines) = n
                        /\ text_chars(after) = text_chars(textarea) - 1
                     \/ /\ Len(after.lines) = n - 1
                        /\ text_chars(after) = text_chars(textarea)
                  /\ text_after_cursor(after) = text_after_cursor(textarea)
            /\ ~fix.panicked
            /\ fix.cursor = <<0, 0>>
            /\ text_after_cursor(fix) = text_after_cursor(textarea)
            /\ (row = n - 1 /\ col = chars_count(textarea.lines[n]) - 1) =>
                  fix.lines = TextArea_default.lines

============================================================================
